---- MODULE Spec2Model ----
(***************************************************************************)
(* A model of the record validation and cleaning engine of                 *)
(* multinational-retail-data-centralisation: the DataCleaning batch driver *)
(* (src/main/data_cleaning.py), the pydantic record models it applies row  *)
(* by row, the logging handlers it installs and the CSV sink it writes.    *)
(*                                                                         *)
(* Strings are sequences of one-character strings, so that length, strip,  *)
(* hyphen removal and digit tests are computed as the code computes them.  *)
(***************************************************************************)
EXTENDS Integers, Sequences, FiniteSets, TLC

(***************************************************************************)
(* Raw and normalized scalar values.  t is the Python type of the value.   *)
(***************************************************************************)
None == [t |-> "none", n |-> 0, s |-> <<>>]
NaN == [t |-> "nan", n |-> 0, s |-> <<>>]
IntV(i) == [t |-> "int", n |-> i, s |-> <<>>]
StrV(cs) == [t |-> "str", n |-> 0, s |-> cs]
UuidObj(hex) == [t |-> "uuid", n |-> 0, s |-> hex]
DecV(i) == [t |-> "decimal", n |-> i, s |-> <<>>]

Range(f) == {f[i] : i \in DOMAIN f}

DigitChars == <<"0", "1", "2", "3", "4", "5", "6", "7", "8", "9">>
DigitSet == Range(DigitChars)
HexLower == {"a", "b", "c", "d", "e", "f"}
HexUpper == {"A", "B", "C", "D", "E", "F"}

UpperLetters == <<"A", "B", "C", "D", "E", "F", "G", "H", "I", "J", "K", "L", "M",
                  "N", "O", "P", "Q", "R", "S", "T", "U", "V", "W", "X", "Y", "Z">>
LowerLetters == <<"a", "b", "c", "d", "e", "f", "g", "h", "i", "j", "k", "l", "m",
                  "n", "o", "p", "q", "r", "s", "t", "u", "v", "w", "x", "y", "z">>

\* str.lower() on one character
LowerChar(c) ==
    IF c \in Range(UpperLetters)
    THEN LowerLetters[CHOOSE i \in DOMAIN UpperLetters : UpperLetters[i] = c]
    ELSE c

Lower(cs) == [i \in 1..Len(cs) |-> LowerChar(cs[i])]

RECURSIVE Digits(_)
Digits(k) ==
    IF k < 10 THEN <<DigitChars[k + 1]>>
    ELSE Digits(k \div 10) \o <<DigitChars[(k % 10) + 1]>>

\* Python str(value)
PyStr(v) ==
    CASE v.t = "str" -> v.s
      [] v.t = "int" -> IF v.n < 0 THEN <<"-">> \o Digits(0 - v.n) ELSE Digits(v.n)
      [] v.t = "none" -> <<"N", "o", "n", "e">>
      [] v.t = "nan" -> <<"n", "a", "n">>
      [] OTHER -> v.s

\* Python truthiness of a value: `if value and ...`
Truthy(v) ==
    CASE v.t = "none" -> FALSE
      [] v.t = "int" -> v.n # 0
      [] v.t = "str" -> v.s # <<>>
      [] OTHER -> TRUE

RECURSIVE LStrip(_)
LStrip(cs) == IF cs # <<>> /\ Head(cs) = " " THEN LStrip(Tail(cs)) ELSE cs

RECURSIVE RStrip(_)
RStrip(cs) ==
    IF cs # <<>> /\ cs[Len(cs)] = " " THEN RStrip(SubSeq(cs, 1, Len(cs) - 1)) ELSE cs

\* str_strip_whitespace = True
Strip(cs) == RStrip(LStrip(cs))

RemoveChar(cs, c) == SelectSeq(cs, LAMBDA x : x # c)

RECURSIVE LStripBraces(_)
LStripBraces(cs) ==
    IF cs # <<>> /\ Head(cs) \in {"{", "}"} THEN LStripBraces(Tail(cs)) ELSE cs

RECURSIVE RStripBraces(_)
RStripBraces(cs) ==
    IF cs # <<>> /\ cs[Len(cs)] \in {"{", "}"}
    THEN RStripBraces(SubSeq(cs, 1, Len(cs) - 1)) ELSE cs

\* uuid.UUID(hex): braces stripped, hyphens removed, then exactly 32
\* hexadecimal digits of either case; any version is accepted.
UuidHex(cs) == RemoveChar(RStripBraces(LStripBraces(cs)), "-")

UuidParses(cs) ==
    LET hex == UuidHex(cs)
    IN  /\ Len(hex) = 32
        /\ \A i \in 1..Len(hex) : hex[i] \in DigitSet \cup HexLower \cup HexUpper

UuidOf(cs) ==
    LET hex == UuidHex(cs)
    IN  UuidObj([i \in 1..Len(hex) |-> LowerChar(hex[i])])

(***************************************************************************)
(* The outcome of validating one field: the normalized value, one error of *)
(* the ValidationError, or an exception pydantic does not catch.           *)
(***************************************************************************)
Ok(v) == [st |-> "ok", v |-> v, ty |-> "none"]
Err(ty) == [st |-> "err", v |-> None, ty |-> ty]
Raise(ex) == [st |-> "raise", v |-> None, ty |-> ex]

IsIntText(cs) ==
    LET body == IF cs # <<>> /\ Head(cs) \in {"-", "+"} THEN Tail(cs) ELSE cs
    IN  body # <<>> /\ \A i \in 1..Len(body) : body[i] \in DigitSet

RECURSIVE DigitsValue(_)
DigitsValue(cs) ==
    IF cs = <<>> THEN 0
    ELSE 10 * DigitsValue(SubSeq(cs, 1, Len(cs) - 1))
         + (CHOOSE d \in 0..9 : DigitChars[d + 1] = cs[Len(cs)])

IntOfText(cs) ==
    IF Head(cs) = "-" THEN 0 - DigitsValue(Tail(cs))
    ELSE IF Head(cs) = "+" THEN DigitsValue(Tail(cs))
    ELSE DigitsValue(cs)

\* pydantic int (lax mode)
IntField(v) ==
    CASE v.t = "int" -> Ok(IntV(v.n))
      [] v.t = "str" -> IF IsIntText(Strip(v.s)) THEN Ok(IntV(IntOfText(Strip(v.s))))
                        ELSE Err("int_parsing")
      [] v.t = "nan" -> Err("finite_number")
      [] OTHER -> Err("int_type")

\* pydantic conint(ge=lo, le=hi)
ConInt(v, lo, hi) ==
    LET r == IntField(v)
    IN  IF r.st # "ok" THEN r
        ELSE IF r.v.n < lo THEN Err("greater_than_equal")
        ELSE IF r.v.n > hi THEN Err("less_than_equal")
        ELSE r

\* pydantic str with str_strip_whitespace and str_min_length
StrField(v, minLen) ==
    LET stripped == Strip(v.s)
    IN  IF v.t # "str" THEN Err("string_type")
        ELSE IF Len(stripped) < minLen THEN Err("string_too_short")
        ELSE Ok(StrV(stripped))

\* Optional[X]
OptionalField(v, r) == IF v.t = "none" THEN Ok(None) ELSE r

\* pydantic uuid.UUID
UuidField(v) ==
    CASE v.t = "uuid" -> Ok(v)
      [] v.t = "str" -> IF UuidParses(v.s) THEN Ok(UuidOf(v.s)) ELSE Err("uuid_parsing")
      [] OTHER -> Err("uuid_type")

MaxDigits == 10

\* pydantic condecimal(max_digits=10, decimal_places=2)
DecimalField(v) ==
    CASE v.t = "int" ->
            IF Len(Digits(IF v.n < 0 THEN 0 - v.n ELSE v.n)) > MaxDigits
            THEN Err("decimal_max_digits") ELSE Ok(DecV(v.n))
      [] v.t = "decimal" -> Ok(v)
      [] v.t = "str" -> IF IsIntText(Strip(v.s)) THEN Ok(DecV(IntOfText(Strip(v.s))))
                        ELSE Err("decimal_parsing")
      [] v.t = "nan" -> Err("finite_number")
      [] OTHER -> Err("decimal_type")

TimePeriods == {<<"M", "o", "r", "n", "i", "n", "g">>, <<"M", "i", "d", "d", "a", "y">>,
                <<"E", "v", "e", "n", "i", "n", "g">>,
                <<"L", "a", "t", "e", "_", "H", "o", "u", "r", "s">>}

\* Literal["Morning", "Midday", "Evening", "Late_Hours"]
LiteralField(v) ==
    IF v.t = "str" /\ v.s \in TimePeriods THEN Ok(v) ELSE Err("literal_error")

(***************************************************************************)
(* Floats are kept as their decimal text (the repr of the float), dates as *)
(* the number yyyymmdd.                                                    *)
(***************************************************************************)
FloatV(text) == [t |-> "float", n |-> 0, s |-> text]
DateV(y, m, d) == [t |-> "date", n |-> (y * 10000) + (m * 100) + d, s |-> <<>>]

StartsWith(cs, p) == Len(cs) >= Len(p) /\ SubSeq(cs, 1, Len(p)) = p

Drop(cs, k) == SubSeq(cs, k + 1, Len(cs))

\* `p in cs`
Contains(cs, p) ==
    \E i \in 1..(Len(cs) - Len(p) + 1) : SubSeq(cs, i, i + Len(p) - 1) = p

\* str.replace(c, rep) for a one-character c
RECURSIVE ReplaceChar(_, _, _)
ReplaceChar(cs, c, rep) ==
    IF cs = <<>> THEN <<>>
    ELSE (IF Head(cs) = c THEN rep ELSE <<Head(cs)>>) \o ReplaceChar(Tail(cs), c, rep)

RECURSIVE Zeros(_)
Zeros(k) == IF k <= 0 THEN <<>> ELSE <<"0">> \o Zeros(k - 1)

\* a text of digits with at most one "." and at least one digit
IsDecimalText(cs) ==
    /\ \A i \in 1..Len(cs) : cs[i] \in DigitSet \cup {"."}
    /\ Cardinality({i \in 1..Len(cs) : cs[i] = "."}) <= 1
    /\ \E i \in 1..Len(cs) : cs[i] \in DigitSet

DecimalNum(cs) == DigitsValue(RemoveChar(cs, "."))

DecimalPlaces(cs) ==
    IF \E i \in 1..Len(cs) : cs[i] = "."
    THEN Len(cs) - (CHOOSE i \in 1..Len(cs) : cs[i] = ".")
    ELSE 0

\* repr of the non-negative float num / 10^places
RECURSIVE FloatRepr(_, _)
FloatRepr(num, places) ==
    IF places > 0 /\ num % 10 = 0 THEN FloatRepr(num \div 10, places - 1)
    ELSE IF places = 0 THEN Digits(num) \o <<".", "0">>
    ELSE LET d == Zeros((places + 1) - Len(Digits(num))) \o Digits(num)
         IN  SubSeq(d, 1, Len(d) - places) \o <<".">>
             \o SubSeq(d, Len(d) - places + 1, Len(d))

\* float(text), on texts of digits and dots and on texts that are no float
\* literal
PyFloat(cs) ==
    IF IsDecimalText(cs)
    THEN Ok(FloatV(FloatRepr(DecimalNum(cs), DecimalPlaces(cs))))
    ELSE Err("value_error")

\* float * (fnum / 10^fplaces)
FloatTimes(v, fnum, fplaces) ==
    FloatV(FloatRepr(DecimalNum(v.s) * fnum, DecimalPlaces(v.s) + fplaces))

\* pydantic float (lax mode); nan is allowed
FloatField(v) ==
    CASE v.t = "float" -> Ok(v)
      [] v.t = "nan" -> Ok(v)
      [] v.t = "int" ->
            Ok(FloatV(IF v.n < 0 THEN <<"-">> \o FloatRepr(0 - v.n, 0)
                      ELSE FloatRepr(v.n, 0)))
      [] v.t = "str" -> IF IsDecimalText(Strip(v.s)) THEN PyFloat(Strip(v.s))
                        ELSE Err("float_parsing")
      [] OTHER -> Err("float_type")

\* pydantic conint(ge=lo)
GeInt(v, lo) ==
    LET r == IntField(v)
    IN  IF r.st # "ok" THEN r
        ELSE IF r.v.n < lo THEN Err("greater_than_equal")
        ELSE r

\* pydantic constr(min_length=lo, max_length=hi) with str_strip_whitespace
ConStr(v, lo, hi) ==
    LET r == StrField(v, lo)
    IN  IF r.st = "ok" /\ Len(r.v.s) > hi THEN Err("string_too_long") ELSE r

IsLeap(y) == (y % 4 = 0 /\ y % 100 # 0) \/ y % 400 = 0

DaysIn(y, m) ==
    IF m = 2 THEN (IF IsLeap(y) THEN 29 ELSE 28)
    ELSE IF m \in {4, 6, 9, 11} THEN 30
    ELSE 31

\* datetime.date(y, m, d) exists
IsRealDate(y, m, d) == y >= 1 /\ m \in 1..12 /\ d >= 1 /\ d <= DaysIn(y, m)

\* yyyy-mm-dd or yyyy/mm/dd
IsYmdText(cs) ==
    /\ Len(cs) = 10
    /\ cs[5] \in {"-", "/"}
    /\ cs[8] = cs[5]
    /\ \A i \in {1, 2, 3, 4, 6, 7, 9, 10} : cs[i] \in DigitSet

InvalidDateText == <<"i", "n", "v", "a", "l", "i", "d", "-", "d", "a", "t", "e">>

\* dateutil parser.parse(value).date(), on the two shapes of text the model
\* feeds it: a real date written year, month, day, and a text that is no
\* date (ParserError, a ValueError).
DateutilParse(cs) ==
    LET text == Strip(cs)
    IN  CASE text = InvalidDateText -> Err("value_error")
          [] IsYmdText(text)
             /\ IsRealDate(DigitsValue(SubSeq(text, 1, 4)), DigitsValue(SubSeq(text, 6, 7)),
                           DigitsValue(SubSeq(text, 9, 10))) ->
                Ok(DateV(DigitsValue(SubSeq(text, 1, 4)), DigitsValue(SubSeq(text, 6, 7)),
                         DigitsValue(SubSeq(text, 9, 10))))

\* parse_dates, validate_open_date (mode="before"), then the date field
parse_dates(value) ==
    CASE value.t = "str" -> DateutilParse(value.s)
      [] value.t = "date" -> Ok(value)
      [] value.t = "none" -> Err("date_type")

(***************************************************************************)
(* UserModel                                                               *)
(***************************************************************************)
\* value.replace("@@", "@")
RECURSIVE ReplaceAtAt(_)
ReplaceAtAt(cs) ==
    IF Len(cs) >= 2 /\ cs[1] = "@" /\ cs[2] = "@"
    THEN <<"@">> \o ReplaceAtAt(Drop(cs, 2))
    ELSE IF cs = <<>> THEN <<>>
    ELSE <<Head(cs)>> \o ReplaceAtAt(Tail(cs))

EmailChars == DigitSet \cup Range(LowerLetters) \cup Range(UpperLetters) \cup {"."}

\* pydantic EmailStr, on texts of letters, digits, ".", "@", "[", "=" and
\* " ": one "@" between a non-empty local part and a domain of at least two
\* non-empty labels; the domain is lower-cased.
EmailStrField(v) ==
    LET text == Strip(v.s)
        ats == {i \in 1..Len(text) : text[i] = "@"}
        at == CHOOSE i \in ats : TRUE
        localPart == SubSeq(text, 1, at - 1)
        domain == SubSeq(text, at + 1, Len(text))
    IN  IF v.t # "str" THEN Err("string_type")
        ELSE IF /\ Cardinality(ats) = 1
                /\ localPart # <<>>
                /\ \A i \in 1..Len(localPart) : localPart[i] \in EmailChars
                /\ \A i \in 1..Len(domain) : domain[i] \in EmailChars
                /\ Contains(domain, <<".">>)
                /\ ~Contains(domain, <<".", ".">>)
                /\ domain # <<>> /\ Head(domain) # "." /\ domain[Len(domain)] # "."
                /\ Head(localPart) # "." /\ localPart[Len(localPart)] # "."
                /\ ~Contains(localPart, <<".", ".">>)
             THEN Ok(StrV(localPart \o <<"@">> \o Lower(domain)))
             ELSE Err("value_error")

\* UserModel.validate_email_address (mode="before"), then EmailStr
validate_email_address(value) ==
    IF value.t = "str" THEN EmailStrField(StrV(ReplaceAtAt(value.s)))
    ELSE EmailStrField(value)

\* `+`, two or three digits (k of them) and `(0)` at the start of cs
DialMatch(cs, k) ==
    /\ Len(cs) >= k + 4
    /\ cs[1] = "+"
    /\ \A i \in 2..(k + 1) : cs[i] \in DigitSet
    /\ SubSeq(cs, k + 2, k + 4) = <<"(", "0", ")">>

\* re.sub(r"^\+\d{2,3}\(0\)|^001[- ]?", "", value)
StripDialPrefix(cs) ==
    IF DialMatch(cs, 3) THEN Drop(cs, 7)
    ELSE IF DialMatch(cs, 2) THEN Drop(cs, 6)
    ELSE IF StartsWith(cs, <<"0", "0", "1">>)
    THEN (IF Len(cs) >= 4 /\ cs[4] \in {"-", " "} THEN Drop(cs, 4) ELSE Drop(cs, 3))
    ELSE cs

\* re.sub(r"^\(0\)|^\(00\)|\(", "", value)
StripOpenParens(cs) ==
    LET rest == IF StartsWith(cs, <<"(", "0", ")">>) THEN Drop(cs, 3)
                ELSE IF StartsWith(cs, <<"(", "0", "0", ")">>) THEN Drop(cs, 4)
                ELSE cs
    IN  RemoveChar(rest, "(")

\* re.sub(r"^\d{2,3}", "", value)
StripLeadingDigits(cs) ==
    IF Len(cs) >= 3 /\ \A i \in 1..3 : cs[i] \in DigitSet THEN Drop(cs, 3)
    ELSE IF Len(cs) >= 2 /\ \A i \in 1..2 : cs[i] \in DigitSet THEN Drop(cs, 2)
    ELSE cs

\* the text UserModel.clean_phone_number returns for a str
CleanPhoneText(cs) ==
    LET a == StripDialPrefix(cs)
        b == StripOpenParens(a)
        c == RemoveChar(b, ")")
        d == StripLeadingDigits(c)
        e == ReplaceChar(d, "-", <<",", " ">>)
        f == ReplaceChar(e, ".", <<",", " ">>)
        g == ReplaceChar(f, "x", <<" ", "e", "x", "t", " ">>)
    IN  Strip(g)

\* UserModel.clean_phone_number (mode="before"), then the str field
clean_phone_number(value) ==
    IF value.t = "str" THEN StrField(StrV(CleanPhoneText(value.s)), 0)
    ELSE StrField(value, 0)

UnitedKingdom == <<"U", "n", "i", "t", "e", "d", " ", "K", "i", "n", "g", "d", "o", "m">>

validate_country_code_any(value, country) ==
    IF value = StrV(<<"G", "G", "B">>) THEN ConStr(StrV(<<"G", "B">>), 2, 2)
    ELSE ConStr(value, 2, 2)

\* UserModel.validate_country_code (mode="before"), then
\* constr(min_length=2, max_length=2); country is info.data.get("country")
validate_country_code(value, country) ==
    IF country = StrV(UnitedKingdom) /\ value = StrV(<<"G", "G", "B">>)
    THEN ConStr(StrV(<<"G", "B">>), 2, 2)
    ELSE ConStr(value, 2, 2)

(***************************************************************************)
(* StoreModel                                                              *)
(***************************************************************************)
\* StoreModel.validate_staff_numbers (mode="before"), then conint(ge=0)
validate_staff_numbers(value) ==
    LET cleaned_value == SelectSeq(PyStr(value), LAMBDA c : c \in DigitSet)
    IN  IF cleaned_value = <<>> THEN Err("value_error")
        ELSE GeInt(IntV(DigitsValue(cleaned_value)), 0)

(***************************************************************************)
(* ProductModel: its validators run after the str field validated          *)
(***************************************************************************)
AfterStr(v, r) == IF StrField(v, 0).st = "ok" THEN r ELSE StrField(v, 0)

Pound == "£"

\* ProductModel.validate_product_price
validate_product_price(value) ==
    LET text == Strip(value.s)
    IN  AfterStr(value, PyFloat(IF StartsWith(text, <<Pound>>) THEN Tail(text) ELSE text))

\* re.sub("[^0-9.]", "", value)
NumericPart(cs) == SelectSeq(cs, LAMBDA c : c \in DigitSet \cup {"."})

\* ProductModel.validate_weight
validate_weight(value) ==
    LET text == Lower(Strip(value.s))
        grams == PyFloat(NumericPart(text))
    IN  AfterStr(value,
            IF Contains(text, <<"m", "l">>) THEN grams
            ELSE IF Contains(text, <<"k", "g">>)
            THEN (IF grams.st = "ok" THEN Ok(FloatTimes(grams.v, 1000, 0)) ELSE grams)
            ELSE IF Contains(text, <<"g">>) THEN grams
            ELSE IF Contains(text, <<"o", "z">>)
            THEN (IF grams.st = "ok" THEN Ok(FloatTimes(grams.v, 283495, 4)) ELSE grams)
            ELSE Err("value_error"))

\* ProductModel.validate_date_added
validate_date_added(value) == AfterStr(value, DateutilParse(value.s))

\* ProductModel.validate_EAN
validate_EAN(value) ==
    LET text == Strip(value.s)
    IN  AfterStr(value,
            IF text # <<>> /\ \A i \in 1..Len(text) : text[i] \in DigitSet
            THEN Ok(StrV(text)) ELSE Err("value_error"))

\* ProductModel.validate_uuid
validate_uuid(value) ==
    LET value_str == Strip(value.s)
    IN  AfterStr(value,
            IF Len(value_str) # 16 \/ ~(\A i \in 1..Len(value_str) : value_str[i] \in DigitSet)
            THEN Err("value_error") ELSE Ok(StrV(value_str)))

RemovedStatuses ==
    {<<"S", "t", "i", "l", "l", "_", "a", "v", "a", "l", "i", "a", "b", "l", "e">>,
     <<"R", "e", "m", "o", "v", "e", "d">>}

\* ProductModel.validate_removed
validate_removed(value) ==
    AfterStr(value, IF Strip(value.s) \in RemovedStatuses THEN Ok(StrV(Strip(value.s)))
                    ELSE Err("value_error"))

(***************************************************************************)
(* The record models.  A model is its field list in declaration order, the *)
(* fields that have no default, and each field's validators.               *)
(***************************************************************************)
ModelClasses == {"OrderModel", "DateModel"}

(***************************************************************************)
(* PaymentModel                                                            *)
(***************************************************************************)
\* re.sub(r"\D", "", value)
DigitsOnly(cs) == SelectSeq(cs, LAMBDA c : c \in DigitSet)

\* PaymentModel.validate_card_number (mode="before"), then the str field:
\* the length check of the source is commented out
PaymentModel_validate_card_number(value) ==
    IF value.t \in {"int", "str"}
    THEN StrField(StrV(DigitsOnly(PyStr(value))), 0)
    ELSE Err("value_error")

\* re.match(r"^(0[1-9]|1[0-2])\/([0-9]{2})$", value)
ExpiryMatches(cs) ==
    /\ Len(cs) = 5
    /\ \/ cs[1] = "0" /\ cs[2] \in DigitSet \ {"0"}
       \/ cs[1] = "1" /\ cs[2] \in {"0", "1", "2"}
    /\ cs[3] = "/"
    /\ cs[4] \in DigitSet /\ cs[5] \in DigitSet

\* PaymentModel.validate_expiry_date, after the str field validated
validate_expiry_date(value) ==
    AfterStr(value, IF ExpiryMatches(Strip(value.s)) THEN Ok(StrV(Strip(value.s)))
                    ELSE Err("value_error"))

\* PaymentModel.validate_and_clean_date_payment (mode="before"), then the
\* date field
validate_and_clean_date_payment(value) ==
    CASE value.t = "str" -> DateutilParse(value.s)
      [] value.t = "date" -> Ok(value)
      [] OTHER -> Err("date_type")

\* the record models the batch specifications range over
RecordModels ==
    ModelClasses \cup {"UserModel", "StoreModel", "ProductModel", "PaymentModel"}

Fields(mc) ==
    CASE mc = "OrderModel" ->
            <<"level_0", "index", "date_uuid", "user_uuid", "card_number",
              "store_code", "product_code", "product_quantity">>
      [] mc = "DateModel" ->
            <<"timestamp", "month", "year", "day", "time_period", "date_uuid">>
      [] mc = "UserModel" ->
            <<"index", "first_name", "last_name", "date_of_birth", "company",
              "email_address", "address", "country", "country_code",
              "phone_number", "join_date", "user_uuid">>
      [] mc = "StoreModel" ->
            <<"index", "address", "longitude", "lat", "locality", "store_code",
              "staff_numbers", "opening_date", "store_type", "latitude",
              "country_code", "continent">>
      [] mc = "ProductModel" ->
            <<"product_name", "product_price", "weight", "category", "EAN",
              "date_added", "uuid", "removed", "product_code">>
      [] mc = "PaymentModel" ->
            <<"card_number", "expiry_date", "card_provider", "date_payment_confirmed">>

\* the fields without a default: an Optional[...] annotation alone gives none
Required(mc) ==
    IF mc = "OrderModel" THEN {"date_uuid", "user_uuid", "card_number"}
    ELSE Range(Fields(mc))

CardMinLen == 9
CardMaxLen == 19

\* OrderModel.validate_card_number (mode="before"), then the str field
validate_card_number(value) ==
    LET value_str == PyStr(value)
    IN  IF ~(CardMinLen <= Len(value_str) /\ Len(value_str) <= CardMaxLen)
        THEN Err("value_error")
        ELSE StrField(StrV(value_str), 0)

\* `value <= 0`: defined between numbers, a TypeError for a str
LeZero(value) ==
    CASE value.t \in {"int", "decimal"} -> IF value.n <= 0 THEN "true" ELSE "false"
      [] value.t = "nan" -> "false"
      [] OTHER -> "TypeError"

\* OrderModel.validate_product_quantity (mode="before"), then
\* Optional[condecimal(max_digits=10, decimal_places=2)]
validate_product_quantity(value) ==
    IF Truthy(value) /\ LeZero(value) = "TypeError" THEN Raise("TypeError")
    ELSE IF Truthy(value) /\ LeZero(value) = "true" THEN Err("value_error")
    ELSE OptionalField(value, DecimalField(value))

\* OrderModel.validate_uuids (mode="before"), then the UUID field
validate_uuids(value) ==
    LET text == PyStr(value)
    IN  IF UuidParses(text) THEN UuidField(UuidOf(text)) ELSE Err("value_error")

MonthMax == 12
YearMin == 1900
YearMax == 2100
DayMax == 31

\* The validators pydantic runs for field f of model mc on raw value v.
\* DateModel.validate_timestamp and DateModel.validate_day are plain
\* classmethods, not registered as field validators: they never run.
ValidateField(mc, f, v) ==
    CASE mc = "OrderModel" ->
            CASE f \in {"level_0", "index"} -> OptionalField(v, IntField(v))
              [] f \in {"date_uuid", "user_uuid"} -> validate_uuids(v)
              [] f = "card_number" -> validate_card_number(v)
              [] f \in {"store_code", "product_code"} -> OptionalField(v, StrField(v, 0))
              [] OTHER -> validate_product_quantity(v)
      [] mc = "DateModel" ->
            CASE f = "timestamp" -> StrField(v, 1)
              [] f = "month" -> ConInt(v, 1, MonthMax)
              [] f = "year" -> ConInt(v, YearMin, YearMax)
              [] f = "day" -> ConInt(v, 1, DayMax)
              [] f = "time_period" -> LiteralField(v)
              [] OTHER -> UuidField(v)
      [] mc = "UserModel" ->
            CASE f = "index" -> IntField(v)
              [] f \in {"first_name", "last_name"} -> StrField(v, 1)
              [] f \in {"date_of_birth", "join_date"} -> parse_dates(v)
              [] f = "email_address" -> validate_email_address(v)
              [] f = "phone_number" -> clean_phone_number(v)
              [] f = "user_uuid" -> UuidField(v)
              [] OTHER -> StrField(v, 0)
      [] mc = "StoreModel" ->
            CASE f = "index" -> GeInt(v, 1)
              [] f = "longitude" -> OptionalField(v, FloatField(v))
              [] f = "lat" -> Ok(v)
              [] f = "locality" -> OptionalField(v, StrField(v, 0))
              [] f = "store_code" -> StrField(v, 1)
              [] f = "staff_numbers" -> validate_staff_numbers(v)
              [] f = "opening_date" -> parse_dates(v)
              [] f = "latitude" -> FloatField(v)
              [] f = "country_code" -> ConStr(v, 2, 2)
              [] OTHER -> StrField(v, 0)
      [] mc = "ProductModel" ->
            CASE f = "product_price" -> validate_product_price(v)
              [] f = "weight" -> validate_weight(v)
              [] f = "EAN" -> validate_EAN(v)
              [] f = "date_added" -> validate_date_added(v)
              [] f = "uuid" -> validate_uuid(v)
              [] f = "removed" -> validate_removed(v)
              [] OTHER -> StrField(v, 0)
      [] mc = "PaymentModel" ->
            CASE f = "card_number" -> PaymentModel_validate_card_number(v)
              [] f = "expiry_date" -> validate_expiry_date(v)
              [] f = "date_payment_confirmed" -> validate_and_clean_date_payment(v)
              [] OTHER -> StrField(v, 0)

FieldOutcomeLenient(mc, f, row) ==
    IF f \in DOMAIN row THEN ValidateField(mc, f, row[f]) ELSE Ok(None)

\* info.data.get("country"): the validated country of the row, None when
\* the row has none or it failed validation
InfoCountry(row) ==
    IF "country" \in DOMAIN row /\ StrField(row["country"], 0).st = "ok"
    THEN StrField(row["country"], 0).v ELSE None

\* One field of model_class(**row.to_dict()): a column the row does not
\* have is an error for a required field and the default None otherwise;
\* columns the model does not declare are ignored.
FieldOutcome(mc, f, row) ==
    IF f \notin DOMAIN row
    THEN (IF f \in Required(mc) THEN Err("missing") ELSE Ok(None))
    ELSE IF mc = "UserModel" /\ f = "country_code"
    THEN validate_country_code(row[f], InfoCountry(row))
    ELSE ValidateField(mc, f, row[f])

FieldOutcomes(mc, row) ==
    [i \in 1..Len(Fields(mc)) |-> FieldOutcome(mc, Fields(mc)[i], row)]

\* The fields, in schema order, whose validation failed
FailedAt(out) ==
    SelectSeq([i \in 1..Len(out) |-> i], LAMBDA i : out[i].st = "err")

ErrorEntry(mc, row, out, i) ==
    [loc |-> Fields(mc)[i], type |-> out[i].ty,
     input |-> IF Fields(mc)[i] \in DOMAIN row THEN row[Fields(mc)[i]] ELSE None]

ErrorListFirstOnly(mc, row, out) ==
    LET failed == FailedAt(out)
    IN  [k \in 1..(IF failed = <<>> THEN 0 ELSE 1) |-> ErrorEntry(mc, row, out, failed[k])]

\* e.errors(): one entry per failing field, in schema order
ErrorList(mc, row, out) ==
    LET failed == FailedAt(out)
    IN  [k \in 1..Len(failed) |-> ErrorEntry(mc, row, out, failed[k])]

NoRecord == <<>>

\* model_instance.dict()
RecordOf(mc, out) ==
    [f \in Range(Fields(mc)) |->
        out[CHOOSE i \in 1..Len(Fields(mc)) : Fields(mc)[i] = f].v]

\* self.model_class(**row.to_dict()): the validated model, a
\* ValidationError carrying every field error, or the exception a
\* validator let escape.
ModelValidate(mc, row) ==
    LET out == FieldOutcomes(mc, row)
        errors == ErrorList(mc, row, out)
    IN  IF \E i \in 1..Len(out) : out[i].st = "raise"
        THEN [kind |-> "raise", exc |-> "TypeError", errors |-> <<>>, rec |-> NoRecord]
        ELSE IF errors # <<>>
        THEN [kind |-> "invalid", exc |-> "ValidationError",
              errors |-> errors, rec |-> NoRecord]
        ELSE [kind |-> "valid", exc |-> "none", errors |-> <<>>,
              rec |-> RecordOf(mc, out)]

(***************************************************************************)
(* Input batches: a DataFrame is its ordered columns and its rows; a row   *)
(* is labelled by its position (the RangeIndex label, from 0).             *)
(***************************************************************************)
MaxRows == 2
MaxHandlers == 3

UuidA == <<"1","2","3","e","4","5","6","7","-","e","8","9","b","-","1","2","d","3","-",
           "a","4","5","6","-","4","2","6","6","1","4","1","7","4","0","0","0">>
UuidB == <<"8","3","D","C","0","A","6","9","-","F","9","6","F","-","4","C","3","4","-",
           "B","C","B","7","-","9","2","8","A","C","A","E","1","9","A","9","4">>
BadUuid == <<"i","n","v","a","l","i","d","-","u","u","i","d">>
Card12 == <<"1","2","3","4","5","6","7","8","9","0","1","2">>
StoreCode == <<"S","T","O","R","E","1","2","3">>
ProductCode == <<"P","1","2","3">>
Timestamp == <<"1","2",":","3","0",":","0","0">>

OrderCols == <<"level_0", "index", "date_uuid", "user_uuid", "card_number",
               "store_code", "product_code", "product_quantity">>
OrderColsNoCard == <<"level_0", "index", "date_uuid", "user_uuid",
                     "store_code", "product_code", "product_quantity">>
DateCols == <<"timestamp", "month", "year", "day", "time_period", "date_uuid">>
ColumnSets == {OrderCols, OrderColsNoCard, DateCols}

\* every field valid, in both record kinds
RowGood ==
    [level_0 |-> IntV(0), index |-> IntV(10), date_uuid |-> StrV(UuidA),
     user_uuid |-> StrV(UuidB), card_number |-> StrV(Card12),
     store_code |-> StrV(StoreCode), product_code |-> StrV(ProductCode),
     product_quantity |-> IntV(3), timestamp |-> StrV(Timestamp),
     month |-> IntV(6), year |-> IntV(2023), day |-> IntV(15),
     time_period |-> StrV(<<"M", "i", "d", "d", "a", "y">>)]

\* several failing fields, in both record kinds
RowBad ==
    [level_0 |-> IntV(1), index |-> IntV(11), date_uuid |-> StrV(BadUuid),
     user_uuid |-> StrV(UuidA), card_number |-> IntV(12345),
     store_code |-> IntV(7), product_code |-> None,
     product_quantity |-> IntV(0 - 1), timestamp |-> StrV(<<" ">>),
     month |-> IntV(13), year |-> IntV(2023), day |-> IntV(30),
     time_period |-> StrV(<<"F", "r", "i", "d", "a", "y">>)]

\* a text where the order quantity is compared with 0
RowText ==
    [level_0 |-> IntV(2), index |-> IntV(12), date_uuid |-> StrV(UuidB),
     user_uuid |-> StrV(UuidA), card_number |-> IntV(123456789),
     store_code |-> None, product_code |-> StrV(ProductCode),
     product_quantity |-> StrV(<<"a", "b", "c">>), timestamp |-> StrV(Timestamp),
     month |-> StrV(<<"2">>), year |-> IntV(2024), day |-> IntV(30),
     time_period |-> StrV(<<"E", "v", "e", "n", "i", "n", "g">>)]

\* one failing field in either record kind: a missing quantity, day 0
RowOne ==
    [level_0 |-> IntV(3), index |-> IntV(13), date_uuid |-> StrV(UuidA),
     user_uuid |-> StrV(UuidB), card_number |-> StrV(Card12),
     store_code |-> StrV(StoreCode), product_code |-> StrV(ProductCode),
     product_quantity |-> NaN, timestamp |-> StrV(Timestamp),
     month |-> IntV(12), year |-> IntV(1900), day |-> IntV(0),
     time_period |-> StrV(<<"M", "o", "r", "n", "i", "n", "g">>)]

RowPool == {RowGood, RowBad, RowText, RowOne}

RowSeqs == UNION {[1..k -> RowPool] : k \in 0..MaxRows}

\* the row Series iterrows yields at position i: its label and its values
Series(cols, full, i) ==
    [name |-> i - 1, cols |-> cols, data |-> [c \in Range(cols) |-> full[c]]]

Frame(cols, fulls) ==
    [isNone |-> FALSE, columns |-> cols,
     rows |-> [i \in 1..Len(fulls) |-> Series(cols, fulls[i], i)]]

Batches == {Frame(cols, fulls) : cols \in ColumnSets, fulls \in RowSeqs}

NoFrame == [isNone |-> TRUE, columns |-> <<>>, rows |-> <<>>]

NoneList == [isNone |-> TRUE, items |-> <<>>]
ListOf(items) == [isNone |-> FALSE, items |-> items]

(***************************************************************************)
(* The state: one DataCleaning object (the name `cleaner` of the scripts), *)
(* the process-wide logger named class_name with the handlers added to it, *)
(* the error log files and the invalid-data CSV files, one of each per     *)
(* model class directory.                                                  *)
(***************************************************************************)
VARIABLES
    df,              \* self.df
    model_class,     \* self.model_class
    valid_data,      \* self.valid_data; each item keeps the label of its row
    invalid_data,    \* self.invalid_data
    invalid_errors,  \* self.invalid_errors
    handlers,        \* logging.getLogger(class_name).handlers, by log file
    logfile,         \* the lines of logging/<model>/<class_name>_errors.log
    sink,            \* logging/<model>/<class_name>_invalid_data.csv
    pc,              \* "ready", or "loop" inside validate_and_clean_data
    pos,             \* the position the loop of validate_and_clean_data is at
    outcome,         \* how the last validate_and_clean_data call ended
    run,             \* history: the inputs of the current or last call
    prevRun,         \* history: inputs and results of the last call that returned
    visited,         \* history: the labels of the rows the loop has visited
    saves,           \* history: save_invalid_data_log calls in a row, up to 2
    conn,            \* the DatabaseConnector fields and its call in progress
    ext              \* the DataExtractor fields and its call in progress

vars == <<df, model_class, valid_data, invalid_data, invalid_errors,
          handlers, logfile, sink, pc, pos, outcome, run, prevRun, visited,
          saves, conn, ext>>

\* DatabaseConnector.__init__: no engine yet; no call has been made
NoConn ==
    [engine |-> "none", target_engine |-> "none", pc |-> "idle", call |-> "none",
     retries |-> 0, delay |-> 0, attempt |-> 0, sleeps |-> <<>>, creates |-> 0,
     connects |-> 0, disposes |-> 0, succeeded |-> FALSE, logged |-> 0,
     outcome |-> "none", message |-> "none", attempts |-> 0, tables |-> "empty",
     sinceUpload |-> FALSE, closedSource |-> FALSE]

\* DataExtractor: no valid_df yet; no call has been made
NoExt ==
    [proc |-> "idle", calls |-> <<>>, valid_df |-> NoneList, returned |-> NoneList,
     rpc |-> "idle", store_index |-> 0, num_stores |-> 0, stores_df |-> <<>>,
     requests |-> <<>>, failed |-> <<>>, retrieves |-> 0]

NoFile == [exists |-> FALSE, header |-> <<>>, lines |-> <<>>]
NoRun == [set |-> FALSE, df |-> NoFrame, mc |-> "none", log |-> <<>>]
NoPrev == [set |-> FALSE, df |-> NoFrame, mc |-> "none", valid |-> NoneList,
           invalid |-> NoneList, errors |-> NoneList, again |-> FALSE]

\* handler = logging.FileHandler(log_filename); logger.addHandler(handler)
AddHandler(hs, mc) == Append(hs, mc)

\* DataCleaning._setup_logger: a new FileHandler on the log file of the
\* current model class is added to the logger named class_name; the
\* handlers added earlier stay.
SetupLogger(hs, mc) == AddHandler(hs, mc)

InitState(b, mc) ==
    /\ df = b
    /\ model_class = mc
    /\ valid_data = NoneList
    /\ invalid_data = NoneList
    /\ invalid_errors = NoneList
    /\ handlers = SetupLogger(<<>>, mc)
    /\ logfile = [m \in RecordModels |-> <<>>]
    /\ sink = [m \in RecordModels |-> NoFile]
    /\ pc = "ready"
    /\ pos = 0
    /\ outcome = "none"
    /\ run = NoRun
    /\ prevRun = NoPrev
    /\ visited = <<>>
    /\ saves = 0
    /\ conn = NoConn
    /\ ext = NoExt

\* cleaner = DataCleaning(model_class=mc); cleaner.df = b
Init == \E b \in Batches, mc \in ModelClasses : InitState(b, mc)

\* cleaner = DataCleaning(model_class=mc): a new object; when the log
\* directory or file cannot be created the constructor raises and the name
\* keeps the old object.
Construct(mc, ok) ==
    /\ pc = "ready"
    /\ saves' = 0
    /\ IF ok
       THEN /\ Len(handlers) < MaxHandlers
            /\ df' = NoFrame
            /\ model_class' = mc
            /\ valid_data' = NoneList
            /\ invalid_data' = NoneList
            /\ invalid_errors' = NoneList
            /\ handlers' = SetupLogger(handlers, mc)
            /\ outcome' = "none"
            /\ run' = NoRun
            /\ prevRun' = NoPrev
            /\ visited' = <<>>
       ELSE UNCHANGED <<df, model_class, valid_data, invalid_data, invalid_errors,
                        handlers, outcome, run, prevRun, visited>>
    /\ UNCHANGED <<logfile, sink, pc, pos, conn, ext>>

\* cleaner.df = batch
SetDf(b) ==
    /\ pc = "ready"
    /\ df' = b
    /\ saves' = 0
    /\ UNCHANGED <<model_class, valid_data, invalid_data, invalid_errors,
                   handlers, logfile, sink, pc, pos, outcome, run, prevRun,
                   visited, conn, ext>>

\* de.model_class = mc
SetModelClass(mc) ==
    /\ pc = "ready"
    /\ mc # model_class
    /\ model_class' = mc
    /\ saves' = 0
    /\ UNCHANGED <<df, valid_data, invalid_data, invalid_errors,
                   handlers, logfile, sink, pc, pos, outcome, run, prevRun,
                   visited, conn, ext>>

ResetResultsKeep(old) == IF old.isNone THEN ListOf(<<>>) ELSE old

\* self.valid_data = []; self.invalid_data = []; self.invalid_errors = []
ResetResults(old) == ListOf(<<>>)

\* validate_and_clean_data up to its loop: the logger is set up again, the
\* three result lists are rebuilt empty, and iterrows is asked of self.df.
\* A failure of _setup_logger (OSError) leaves the call before any of that.
ValidateBeginCall(ok) ==
    /\ pc = "ready"
    /\ saves' = 0
    /\ IF ~ok
       THEN /\ outcome' = "OSError"
            /\ UNCHANGED <<valid_data, invalid_data, invalid_errors, handlers,
                           pc, pos, run, visited>>
       ELSE /\ Len(handlers) < MaxHandlers
            /\ handlers' = SetupLogger(handlers, model_class)
            /\ valid_data' = ResetResults(valid_data)
            /\ invalid_data' = ResetResults(invalid_data)
            /\ invalid_errors' = ResetResults(invalid_errors)
            /\ visited' = <<>>
            /\ run' = [set |-> TRUE, df |-> df, mc |-> model_class, log |-> logfile]
            /\ IF df.isNone
               THEN outcome' = "AttributeError" /\ UNCHANGED <<pc, pos>>
               ELSE outcome' = "running" /\ pc' = "loop" /\ pos' = 1
    /\ UNCHANGED <<df, model_class, logfile, sink, prevRun>>

\* cleaner.validate_and_clean_data() called by the script
ValidateBegin(ok) == ValidateBeginCall(ok) /\ UNCHANGED <<conn, ext>>

RowIndexLabelOnly(row) == IntV(row.name)

\* row_index = row.get("index", row.name)
RowIndex(row) ==
    IF "index" \in DOMAIN row.data THEN row.data["index"] ELSE IntV(row.name)

OnValidPrepend(items, row, rec) == <<[src |-> row.name, rec |-> rec]>> \o items

\* self.valid_data.append(model_instance.dict())
OnValid(items, row, rec) == Append(items, [src |-> row.name, rec |-> rec])

OnInvalidDrop(items, row) == items

\* self.invalid_data.append(row)
OnInvalid(items, row) == Append(items, row)

\* self.invalid_errors.append({"index": ..., "errors": ..., "data": ...})
OnInvalidError(items, row, errors) ==
    Append(items, [index |-> RowIndex(row), errors |-> errors, data |-> row.data])

LogLine(row, errors) ==
    [level |-> "ERROR", index |-> RowIndex(row), errors |-> errors]

\* self.logger.error(...): every handler of the logger appends the line to
\* its file.
RECURSIVE Emit(_, _, _)
Emit(files, hs, line) ==
    IF hs = <<>> THEN files
    ELSE Emit([files EXCEPT ![Head(hs)] = Append(@, line)], Tail(hs), line)

\* One iteration of `for _, row in self.df.iterrows()`
ValidateRow ==
    /\ pc = "loop"
    /\ pos <= Len(df.rows)
    /\ LET row == df.rows[pos]
           res == ModelValidate(model_class, row.data)
       IN  /\ visited' = Append(visited, row.name)
           /\ CASE res.kind = "valid" ->
                     /\ valid_data' = ListOf(OnValid(valid_data.items, row, res.rec))
                     /\ pos' = pos + 1
                     /\ UNCHANGED <<invalid_data, invalid_errors, logfile, pc, outcome>>
                [] res.kind = "invalid" ->
                     /\ invalid_data' = ListOf(OnInvalid(invalid_data.items, row))
                     /\ invalid_errors' =
                            ListOf(OnInvalidError(invalid_errors.items, row, res.errors))
                     /\ logfile' = Emit(logfile, handlers, LogLine(row, res.errors))
                     /\ pos' = pos + 1
                     /\ UNCHANGED <<valid_data, pc, outcome>>
                [] OTHER ->
                     /\ outcome' = res.exc
                     /\ pc' = "ready"
                     /\ UNCHANGED <<valid_data, invalid_data, invalid_errors,
                                    logfile, pos>>
    /\ UNCHANGED <<df, model_class, handlers, sink, run, prevRun,
                   saves, conn, ext>>

\* The loop is exhausted: validate_and_clean_data returns.
ValidateReturn ==
    /\ pc = "loop"
    /\ pos > Len(df.rows)
    /\ pc' = "ready"
    /\ outcome' = "returned"
    /\ prevRun' = [set |-> TRUE, df |-> df, mc |-> model_class,
                   valid |-> valid_data, invalid |-> invalid_data,
                   errors |-> invalid_errors,
                   again |-> prevRun.set /\ prevRun.df = df /\ prevRun.mc = model_class]
    /\ UNCHANGED <<df, model_class, valid_data, invalid_data,
                   invalid_errors, handlers, logfile, sink, pos, run, visited,
                   saves, conn, ext>>

\* to_csv renders a missing value as the empty text
CsvText(v) ==
    CASE v.t \in {"none", "nan"} -> <<>>
      [] OTHER -> PyStr(v)

\* pd.DataFrame(self.invalid_data) written as CSV without the index column
CsvOf(items) ==
    [exists |-> TRUE,
     header |-> IF items = <<>> THEN <<>> ELSE items[1].cols,
     lines |-> [i \in 1..Len(items) |->
                  [c \in DOMAIN items[i].data |-> CsvText(items[i].data[c])]]]

WriteCsvAppend(old, new) ==
    [exists |-> TRUE, header |-> new.header, lines |-> old.lines \o new.lines]

\* DataFrame.to_csv(log_filename, index=False) opens the file for writing
WriteCsv(old, new) == new

\* save_invalid_data_log(): the file is written only when invalid_data is
\* a non-empty list.
SaveInvalidDataLogCall ==
    /\ pc = "ready"
    /\ saves' = IF saves < 2 THEN saves + 1 ELSE saves
    /\ IF ~invalid_data.isNone /\ invalid_data.items # <<>>
       THEN sink' = [sink EXCEPT ![model_class] = WriteCsv(@, CsvOf(invalid_data.items))]
       ELSE UNCHANGED sink
    /\ UNCHANGED <<df, model_class, valid_data, invalid_data, invalid_errors,
                   handlers, logfile, pc, pos, outcome, run, prevRun, visited>>

\* cleaner.save_invalid_data_log() called by the script
SaveInvalidDataLog == SaveInvalidDataLogCall /\ UNCHANGED <<conn, ext>>

Next ==
    \/ \E ok \in BOOLEAN : ValidateBegin(ok)
    \/ ValidateRow
    \/ ValidateReturn
    \/ SaveInvalidDataLog

Spec == Init /\ [][Next]_vars

\* The driver script: it also constructs further cleaners, assigns further
\* batches and reassigns model_class.
ScriptBatches ==
    {Frame(OrderCols, <<RowBad>>), Frame(OrderCols, <<RowGood>>),
     Frame(DateCols, <<RowBad>>)}

InitScript == \E b \in ScriptBatches, mc \in ModelClasses : InitState(b, mc)

NextScript ==
    \/ Next
    \/ \E mc \in ModelClasses, ok \in BOOLEAN : Construct(mc, ok)
    \/ \E b \in ScriptBatches : SetDf(b)
    \/ \E mc \in ModelClasses : SetModelClass(mc)

SpecScript == InitScript /\ [][NextScript]_vars

(***************************************************************************)
(* Single-row batches of every record kind, validated by the model of      *)
(* their kind: the rows of the unit tests and variations of one field.     *)
(***************************************************************************)
UuidV4 == <<"8", "3", "d", "c", "0", "a", "6", "9", "-", "f", "9", "6", "f",
    "-", "4", "c", "3", "4", "-", "b", "c", "b", "7", "-", "9", "2", "8",
    "a", "c", "a", "e", "1", "9", "a", "9", "4">>
UuidV4Padded == <<" ", " ", "8", "3", "D", "C", "0", "A", "6", "9", "-", "F",
    "9", "6", "F", "-", "4", "C", "3", "4", "-", "B", "C", "B", "7", "-",
    "9", "2", "8", "A", "C", "A", "E", "1", "9", "A", "9", "4", " ", " ">>
UuidV4Plain == <<"8", "3", "d", "c", "0", "a", "6", "9", "f", "9", "6", "f",
    "4", "c", "3", "4", "b", "c", "b", "7", "9", "2", "8", "a", "c", "a",
    "e", "1", "9", "a", "9", "4">>
UuidNotHex == <<"1", "2", "3", "e", "4", "5", "6", "7", "-", "e", "8", "9",
    "b", "-", "1", "2", "d", "3", "-", "a", "4", "5", "6", "-", "4", "2",
    "6", "6", "1", "4", "1", "7", "4", "0", "0", "G">>
SixteenDigits == <<"1", "2", "3", "4", "5", "6", "7", "8", "9", "0", "1",
    "2", "3", "4", "5", "6">>
Isodate1990 == <<"1", "9", "9", "0", "-", "0", "1", "-", "0", "1">>
Slashdate1990 == <<"1", "9", "9", "0", "/", "0", "1", "/", "0", "1">>
Isodate2020 == <<"2", "0", "2", "0", "-", "0", "1", "-", "0", "1">>
Isodate2010 == <<"2", "0", "1", "0", "-", "0", "5", "-", "0", "5">>
Isodate2023 == <<"2", "0", "2", "3", "-", "0", "6", "-", "0", "1">>
EmailJohn == <<"j", "o", "h", "n", ".", "d", "o", "e", "@", "e", "x", "a",
    "m", "p", "l", "e", ".", "c", "o", "m">>
EmailBad == <<"j", "o", "h", "n", ".", "d", "o", "e", "[", "=", "]", "e",
    "x", "a", "m", "p", "l", "e", ".", "c", "o", "m">>
PhoneIntl == <<"+", "4", "9", "(", "0", ")", "1", "2", "3", "4", "5", "6",
    "7", "8", "9">>
PhoneCanonical == <<"0", "1", "2", "3", "4", "5", "6", "7", "8", "9">>
PhoneTest == <<"+", "4", "4", " ", "1", "2", "3", "4", " ", "5", "6", "7",
    "8", "9", "0">>

Countries ==
    {StrV(UnitedKingdom), StrV(<<" ">> \o UnitedKingdom \o <<" ">>),
     StrV(<<"G", "e", "r", "m", "a", "n", "y">>), IntV(44), None}

CountryCodes ==
    {StrV(<<"G", "B">>), StrV(<<"G", "G", "B">>), StrV(<<"g", "g", "b">>), StrV(<<"g", "b">>), StrV(<<"1", "2">>), StrV(<<"D", "E">>)}

Phones ==
    {StrV(PhoneIntl), StrV(PhoneCanonical), StrV(PhoneTest),
     StrV(<<"(", "0", ")", "1", "2", "3">>),
     StrV(<<"(", "0", "0", ")", "1", "2", "3", "4">>),
     StrV(<<"+", "1", "-", "5", "5", "5", ".", "0", "1", "0", "0", "x", "2">>),
     StrV(<<"0", "0", "1", "-", "5", "5", "5", "1", "2", "3", "4">>),
     StrV(<<"1", "2">>),
     StrV(<<>>),
     IntV(5551234)}

UuidTexts ==
    {StrV(UuidA), StrV(UuidB), StrV(UuidV4), StrV(UuidV4Padded), StrV(UuidV4Plain),
     StrV(UuidNotHex), StrV(BadUuid)}

\* TestUserModel.test_valid_user, with the given country, code, phone, uuid
UserRow(country, code, phone, id) ==
    [index |-> IntV(1), first_name |-> StrV(<<"J", "o", "h", "n">>), last_name |-> StrV(<<"D", "o", "e">>),
     date_of_birth |-> StrV(Slashdate1990),
     company |-> StrV(<<"C", "o", "m", "p", "a", "n", "y", " ", "I", "n", "c", ".">>),
     email_address |-> StrV(EmailJohn), address |-> StrV(<<"1", "2", "3", " ", "M", "a", "i", "n", " ", "S", "t">>),
     country |-> country, country_code |-> code, phone_number |-> phone,
     join_date |-> StrV(Isodate2020), user_uuid |-> id]

\* TestUserModel.test_invalid_email, with the code "GGB"
UserRowBadEmail ==
    [UserRow(StrV(UnitedKingdom), StrV(<<"G", "G", "B">>), StrV(PhoneTest), StrV(UuidA))
        EXCEPT !.email_address = StrV(EmailBad)]

UserPool ==
    {UserRow(c, k, StrV(PhoneTest), StrV(UuidA)) : c \in Countries, k \in CountryCodes}
    \cup {UserRow(StrV(UnitedKingdom), StrV(<<"G", "B">>), p, StrV(UuidA)) : p \in Phones}
    \cup {UserRow(StrV(UnitedKingdom), StrV(<<"G", "B">>), StrV(PhoneTest), u) :
             u \in UuidTexts}
    \cup {UserRowBadEmail}

\* TestStoreModel.test_valid_store, with the given code and staff numbers
StoreRow(code, staff) ==
    [index |-> IntV(1), address |-> StrV(<<"4", "5", "6", " ", "E", "l", "m", " ", "S", "t">>),
     longitude |-> FloatV(<<"0", ".", "1", "2", "7", "8">>), lat |-> StrV(<<"n", "a", "n">>),
     locality |-> StrV(<<"L", "o", "n", "d", "o", "n">>), store_code |-> StrV(StoreCode),
     staff_numbers |-> staff, opening_date |-> StrV(Isodate2010),
     store_type |-> StrV(<<"R", "e", "t", "a", "i", "l">>),
     latitude |-> FloatV(<<"5", "1", ".", "5", "0", "7", "4">>), country_code |-> code,
     continent |-> StrV(<<"E", "u", "r", "o", "p", "e">>)]

StaffNumbers ==
    {IntV(10), IntV(0 - 5), StrV(<<"3", "n", "9">>), FloatV(<<"1", "0", ".", "0">>), NaN}

StorePool ==
    {StoreRow(k, IntV(10)) : k \in CountryCodes}
    \cup {StoreRow(StrV(<<"G", "B">>), s) : s \in StaffNumbers}

Weights ==
    {StrV(<<"1", "k", "g">>),
     StrV(<<"1", "l", "b">>),
     StrV(<<"1", "2", " ", "x", " ", "1", "0", "0", "g">>),
     StrV(<<"1", ".", "5", "m", "l">>),
     StrV(<<"1", "6", "o", "z">>),
     StrV(<<"x", "1", "k", "g">>),
     StrV(<<"1", " ", "b", "a", "g">>),
     StrV(<<"2", "K", "G">>),
     StrV(<<"k", "g">>),
     StrV(<<"7", "7", "g", " ", ".">>),
     StrV(<<"-", "1", "k", "g">>)}

\* TestProductModel.test_valid_product, with the given uuid and weight
ProductRow(id, weight) ==
    [product_name |-> StrV(<<"G", "a", "d", "g", "e", "t">>),
     product_price |-> StrV(<<Pound, "9", ".", "9", "9">>), weight |-> weight,
     category |-> StrV(<<"E", "l", "e", "c", "t", "r", "o", "n", "i", "c", "s">>),
     EAN |-> StrV(<<"1", "2", "3", "4", "5", "6", "7", "8", "9", "0", "1", "2", "3">>),
     date_added |-> StrV(Isodate2023), uuid |-> id,
     removed |-> StrV(<<"S", "t", "i", "l", "l", "_", "a", "v", "a", "l", "i", "a", "b", "l", "e">>),
     product_code |-> StrV(<<"G", "1", "2", "3">>)]

ProductPool ==
    {ProductRow(StrV(SixteenDigits), w) : w \in Weights}
    \cup {ProductRow(StrV(UuidV4), StrV(<<"1", "k", "g">>)),
          ProductRow(IntV(12345), StrV(<<"1", "k", "g">>))}

Quantities == {IntV(3), IntV(1), IntV(0), IntV(0 - 1), None, NaN}

\* TestOrderModel.test_valid_order, with the given uuids and quantity
OrderRow(dateId, userId, quantity) ==
    [level_0 |-> IntV(0), index |-> IntV(1), date_uuid |-> dateId, user_uuid |-> userId,
     card_number |-> StrV(Card12), store_code |-> StrV(StoreCode),
     product_code |-> StrV(ProductCode), product_quantity |-> quantity]

\* TestPaymentModel.test_valid_payment: "1234-5678-9876-5432"
CardHyphens ==
    <<"1", "2", "3", "4", "-", "5", "6", "7", "8", "-", "9", "8", "7", "6", "-",
      "5", "4", "3", "2">>

\* card numbers: the tests' two, an int, too few digits, letters, NaN
CardNumbers ==
    {StrV(CardHyphens), StrV(Card12), IntV(123456789), StrV(<<"1", "2", "3", "4">>),
     StrV(<<"c", "a", "r", "d", "n", "u", "m", "b", "e", "r">>), NaN}

OrderPool ==
    {OrderRow(StrV(UuidV4), StrV(UuidV4), q) : q \in Quantities}
    \cup {OrderRow(u, StrV(UuidV4), IntV(3)) : u \in UuidTexts}
    \cup {OrderRow(StrV(UuidV4), u, IntV(3)) : u \in UuidTexts}
    \cup {[OrderRow(StrV(UuidV4), StrV(UuidV4), IntV(3)) EXCEPT !.card_number = c] :
             c \in CardNumbers}

\* TestPaymentModel.test_valid_payment, with the given card number and
\* expiry date, and a date written year-month-day
PaymentRow(card, expiry) ==
    [card_number |-> card, expiry_date |-> expiry,
     card_provider |-> StrV(<<"V", "i", "s", "a">>),
     date_payment_confirmed |-> StrV(Isodate2023)]

ExpiryDates == {StrV(<<"1", "2", "/", "2", "5">>), StrV(<<"1", "3", "/", "2", "5">>)}

PaymentPool == {PaymentRow(c, e) : c \in CardNumbers, e \in ExpiryDates}

MonthDays == {<<6, 15>>, <<2, 28>>, <<2, 29>>, <<2, 30>>, <<4, 31>>, <<12, 31>>, <<20, 30>>}

Timestamps ==
    {StrV(Timestamp), StrV(<<"2", "5", ":", "6", "1", ":", "0", "0">>),
     StrV(<<"n", "o", "o", "n">>)}

\* TestDateModel.test_valid_date, with the given timestamp, date and uuid
DateRow(ts, y, md, id) ==
    [timestamp |-> ts, month |-> IntV(md[1]), year |-> IntV(y), day |-> IntV(md[2]),
     time_period |-> StrV(<<"M", "i", "d", "d", "a", "y">>), date_uuid |-> id]

DatePool ==
    {DateRow(ts, y, md, StrV(UuidV4)) : ts \in Timestamps, y \in {2023, 2024}, md \in MonthDays}
    \cup {DateRow(StrV(Timestamp), 2023, <<6, 15>>, u) : u \in UuidTexts}

RecordPool(mc) ==
    CASE mc = "UserModel" -> UserPool
      [] mc = "StoreModel" -> StorePool
      [] mc = "ProductModel" -> ProductPool
      [] mc = "OrderModel" -> OrderPool
      [] mc = "DateModel" -> DatePool
      [] mc = "PaymentModel" -> PaymentPool

InitRecords ==
    \E mc \in RecordModels : \E r \in RecordPool(mc) :
        InitState(Frame(Fields(mc), <<r>>), mc)

SpecRecords == InitRecords /\ [][Next]_vars

(***************************************************************************)
(* DatabaseConnector: the engines and the retry loops                      *)
(*                                                                         *)
(* conn.engine is "none", "unconnected" (created, connect() failed) or     *)
(* "connected"; conn.target_engine is "none" or "engine".  The other       *)
(* fields of conn are the call in progress (pc, call, retries, delay, the  *)
(* loop variable attempt) and its history: the attempts made, the sleeps   *)
(* taken, the target engines created, connected and disposed, the error    *)
(* lines logged, and how the call ended.  sinceUpload holds from an upload *)
(* that made an attempt until init_db_engine is called; closedSource holds *)
(* when that upload disposed a source engine.                              *)
(***************************************************************************)
MaxRetries == 3
DefaultDelay == 5

RetriesSet == (0 - 1)..MaxRetries
Delays == {0, DefaultDelay}

NotInitialized == "Database engine is not initialized."

\* the variables of the cleaner
cleaning == <<df, model_class, valid_data, invalid_data, invalid_errors,
              handlers, logfile, sink, pc, pos, outcome, run, prevRun, visited,
              saves>>

\* `if attempt < retries - 1`: sleep and go on; else raise
RetryFollowsAlways(attempt, retries) == TRUE
RetryFollows(attempt, retries) == attempt < retries - 1

\* close_connections: `if self.engine: dispose; self.engine = None`
CloseSourceKeep(c) == c
CloseSource(c) ==
    IF c.engine # "none" THEN [c EXCEPT !.engine = "none", !.closedSource = TRUE] ELSE c

\* close_connections: `if self.target_engine: dispose; self.target_engine = None`
CloseTargetKeep(c) == c
CloseTarget(c) ==
    IF c.target_engine # "none"
    THEN [c EXCEPT !.target_engine = "none", !.disposes = @ + 1]
    ELSE c

close_connections(c) == CloseTarget(CloseSource(c))

\* a call of the connector starts
BeginCall(c, name, r, d) ==
    [c EXCEPT !.call = name, !.retries = r, !.delay = d, !.attempt = 0,
              !.attempts = 0, !.sleeps = <<>>, !.creates = 0, !.connects = 0,
              !.disposes = 0, !.succeeded = FALSE, !.logged = 0,
              !.outcome = "running", !.message = "none"]

\* the call ends: it returns, or raises the exception named
EndCall(c, how, msg) == [c EXCEPT !.pc = "idle", !.outcome = how, !.message = msg]

\* the except branch of both retry loops: log the error, then sleep and
\* go to the next attempt, or raise SQLAlchemyError after the last one
OnDatabaseError(c) ==
    LET logged == [c EXCEPT !.logged = @ + 1]
    IN  IF RetryFollows(c.attempt, c.retries)
        THEN [logged EXCEPT !.sleeps = Append(@, c.delay), !.attempt = @ + 1]
        ELSE EndCall(logged, "SQLAlchemyError", "failed after retries attempts")

\* one pass of the loop of init_db_engine.  result: the credentials cannot
\* be read ("creds": not a database error, it propagates), create_engine
\* raises ("create"), connect() raises ("connect"), or all succeed ("ok")
InitAttempt(c, result) ==
    LET a == [c EXCEPT !.attempts = @ + 1]
    IN  CASE result = "creds" ->
                EndCall([a EXCEPT !.logged = @ + 1], "CredentialsError", "credentials")
          [] result = "create" -> OnDatabaseError(a)
          [] result = "connect" -> OnDatabaseError([a EXCEPT !.engine = "unconnected"])
          [] result = "ok" ->
                EndCall([a EXCEPT !.engine = "connected", !.succeeded = TRUE],
                        "returned", "none")

InitResults == {"creds", "create", "connect", "ok"}

\* init_db_engine(retries=r, delay=d) is called
InitDbEngineBegin(r, d) ==
    /\ conn.pc = "idle"
    /\ conn' = [BeginCall(conn, "init_db_engine", r, d) EXCEPT
                    !.pc = "init", !.sinceUpload = FALSE, !.closedSource = FALSE]
    /\ UNCHANGED <<cleaning, ext>>

\* `for attempt in range(retries)`: one attempt
InitDbEngineAttempt(result) ==
    /\ conn.pc = "init"
    /\ conn.attempt < conn.retries
    /\ conn' = InitAttempt(conn, result)
    /\ UNCHANGED <<cleaning, ext>>

\* range(retries) is exhausted: the method returns
InitDbEngineEnd ==
    /\ conn.pc = "init"
    /\ conn.attempt >= conn.retries
    /\ conn' = EndCall(conn, "returned", "none")
    /\ UNCHANGED <<cleaning, ext>>

\* `if not self.target_engine: create_engine(...); connect()`
EnsureTarget(c) ==
    IF c.target_engine = "none"
    THEN [c EXCEPT !.target_engine = "engine", !.creates = @ + 1, !.connects = @ + 1]
    ELSE c

\* the try block of upload_to_db.  result: create_engine raises
\* ("create"), connect() raises ("connect"), to_sql raises a database
\* error ("to_sql") or another exception ("other"), or all succeed ("ok")
UploadTry(c, result) ==
    CASE result = "create" -> OnDatabaseError(c)
      [] result \in {"connect", "to_sql"} -> OnDatabaseError(EnsureTarget(c))
      [] result = "other" -> EndCall(EnsureTarget(c), "Exception", "to_sql")
      [] result = "ok" ->
            EndCall([EnsureTarget(c) EXCEPT !.succeeded = TRUE], "returned", "none")

\* one pass of the loop of upload_to_db: try, except, finally
UploadAttempt(c, result) ==
    LET a == [c EXCEPT !.attempts = @ + 1]
    IN  [close_connections(UploadTry(a, result)) EXCEPT !.sinceUpload = TRUE]

UploadResults == {"create", "connect", "to_sql", "other", "ok"}

\* upload_to_db(df, table_name, retries=r, delay=d) is called: the target
\* credentials are read before the loop
UploadToDbBegin(r, d, credsOk) ==
    /\ conn.pc = "idle"
    /\ conn' = IF credsOk
               THEN [BeginCall(conn, "upload_to_db", r, d) EXCEPT !.pc = "upload"]
               ELSE EndCall([BeginCall(conn, "upload_to_db", r, d) EXCEPT !.logged = 1],
                            "CredentialsError", "credentials")
    /\ UNCHANGED <<cleaning, ext>>

UploadToDbAttempt(result) ==
    /\ conn.pc = "upload"
    /\ conn.attempt < conn.retries
    /\ result \in {"create", "connect"} => conn.target_engine = "none"
    /\ conn' = UploadAttempt(conn, result)
    /\ UNCHANGED <<cleaning, ext>>

UploadToDbEnd ==
    /\ conn.pc = "upload"
    /\ conn.attempt >= conn.retries
    /\ conn' = EndCall(conn, "returned", "none")
    /\ UNCHANGED <<cleaning, ext>>

\* list_db_tables()
ListDbTables(ok) ==
    /\ conn.pc = "idle"
    /\ LET c == BeginCall(conn, "list_db_tables", 0, 0)
       IN  conn' =
             IF c.engine = "none"
             THEN EndCall([c EXCEPT !.logged = 1], "ValueError", NotInitialized)
             ELSE IF ok THEN EndCall([c EXCEPT !.tables = "listed"], "returned", "none")
             ELSE EndCall([c EXCEPT !.logged = 1], "SQLAlchemyError", "inspect")
    /\ UNCHANGED <<cleaning, ext>>

\* DataExtractor.read_rds_table(table_name), table_name a str
ReadRdsTable(b, ok) ==
    /\ conn.pc = "idle"
    /\ pc = "ready"
    /\ LET c == BeginCall(conn, "read_rds_table", 0, 0)
       IN  IF c.engine = "none"
           THEN /\ conn' = EndCall(c, "RuntimeError", NotInitialized)
                /\ UNCHANGED df
           ELSE IF ok
           THEN /\ conn' = EndCall(c, "returned", "none")
                /\ df' = b
           ELSE /\ conn' = EndCall([c EXCEPT !.logged = 1], "RuntimeError", "read_sql")
                /\ UNCHANGED df
    /\ UNCHANGED <<model_class, valid_data, invalid_data, invalid_errors,
                   handlers, logfile, sink, pc, pos, outcome, run, prevRun,
                   visited, saves, ext>>

\* connector = DatabaseConnector(), or the connector part of a
\* DataExtractor before its constructor calls init_db_engine
InitConnector == InitState(Frame(OrderCols, <<RowGood>>), "OrderModel")

NextConnector ==
    \/ \E r \in RetriesSet, d \in Delays : InitDbEngineBegin(r, d)
    \/ \E result \in InitResults : InitDbEngineAttempt(result)
    \/ InitDbEngineEnd
    \/ \E r \in RetriesSet, d \in Delays, credsOk \in BOOLEAN : UploadToDbBegin(r, d, credsOk)
    \/ \E result \in UploadResults : UploadToDbAttempt(result)
    \/ UploadToDbEnd
    \/ \E ok \in BOOLEAN : ListDbTables(ok)
    \/ \E b \in ScriptBatches, ok \in BOOLEAN : ReadRdsTable(b, ok)

SpecConnector == InitConnector /\ [][NextConnector]_vars

(***************************************************************************)
(* DataExtractor: retrieve_stores_data and process_data                    *)
(*                                                                         *)
(* ext.rpc, store_index, num_stores and stores_df are the loop of          *)
(* retrieve_stores_data; requests and failed are its history: the store    *)
(* numbers requested and those whose request failed.  ext.proc is the      *)
(* position of process_data: the call it is in or is about to make;        *)
(* calls is the history of the calls it has made, returned what            *)
(* get_valid_data returned.  The extractor logs with the logger named      *)
(* class_name, which DataCleaning.__init__ leaves in self.logger.          *)
(***************************************************************************)
MaxStores == 2
MaxRetrieves == 1

\* the payload the API holds for store i: the record of test_valid_store
\* with index i, its country code valid for odd i only
StoreResponse(i) ==
    [StoreRow(IF i % 2 = 1 THEN StrV(<<"G", "B">>) ELSE StrV(<<"G", "G", "B">>), IntV(10))
        EXCEPT !.index = IntV(i)]

\* self.logger.error(f"Failed to retrieve data for store number ...")
RequestErrorLine(i) ==
    [level |-> "ERROR", index |-> IntV(i),
     errors |-> <<[loc |-> "store_number", type |-> "RequestException", input |-> IntV(i)]>>]

\* stores_df.append(response.json())
OnStoreResponsePrepend(list, row) == <<row>> \o list
OnStoreResponse(list, row) == Append(list, row)

\* pd.DataFrame(stores_df): no column when the list is empty
StoresFrame(list) ==
    IF list = <<>> THEN Frame(<<>>, <<>>) ELSE Frame(Fields("StoreModel"), list)

\* process_data is between its first and its last statement
ProcessRunning ==
    ext.proc \in {"validate_and_clean_data", "get_invalid_data", "save_invalid_data_log"}

\* retrieve_stores_data(endpoint, headers, n) is called
RetrieveBegin(n) ==
    /\ ext.rpc = "idle" /\ ~ProcessRunning
    /\ ext.retrieves < MaxRetrieves
    /\ ext' = [ext EXCEPT !.rpc = "loop", !.store_index = 1, !.num_stores = n,
                          !.stores_df = <<>>, !.requests = <<>>, !.failed = <<>>,
                          !.retrieves = @ + 1]
    /\ UNCHANGED <<cleaning, conn>>

\* `for store_index in range(1, num_stores + 1)`: one request; a
\* RequestException is logged and the loop goes on
RetrieveStore(ok) ==
    /\ ext.rpc = "loop"
    /\ ext.store_index <= ext.num_stores
    /\ LET i == ext.store_index
           asked == [ext EXCEPT !.requests = Append(@, i), !.store_index = i + 1]
       IN  IF ok
           THEN /\ ext' = [asked EXCEPT !.stores_df = OnStoreResponse(@, StoreResponse(i))]
                /\ UNCHANGED logfile
           ELSE /\ ext' = [asked EXCEPT !.failed = Append(@, i)]
                /\ logfile' = Emit(logfile, handlers, RequestErrorLine(i))
    /\ UNCHANGED <<df, model_class, valid_data, invalid_data, invalid_errors,
                   handlers, sink, pc, pos, outcome, run, prevRun, visited,
                   saves, conn>>

\* `self.df = pd.DataFrame(stores_df); return self.df`
RetrieveReturn ==
    /\ ext.rpc = "loop"
    /\ ext.store_index > ext.num_stores
    /\ df' = StoresFrame(ext.stores_df)
    /\ ext' = [ext EXCEPT !.rpc = "idle"]
    /\ UNCHANGED <<model_class, valid_data, invalid_data, invalid_errors,
                   handlers, logfile, sink, pc, pos, outcome, run, prevRun,
                   visited, saves, conn>>

\* pd.DataFrame(data): the records of a list, or of a DataFrame, as a frame
DataFrameOf(list) == [isNone |-> FALSE, items |-> list.items, frame |-> TRUE]

\* the statement of process_data that follows the call
ProcAfterStop(call) == "done"
ProcAfter(call) ==
    CASE call = "get_valid_data" -> "get_invalid_data"
      [] call = "get_invalid_data" -> "save_invalid_data_log"
      [] call = "save_invalid_data_log" -> "done"

\* process_data() is called: self.validate_and_clean_data()
ProcessDataBegin(ok) ==
    /\ ext.rpc = "idle" /\ ~ProcessRunning
    /\ ValidateBeginCall(ok)
    /\ ext' = [ext EXCEPT !.proc = IF outcome' = "running" THEN "validate_and_clean_data"
                                   ELSE "raised",
                          !.calls = <<"validate_and_clean_data">>]
    /\ UNCHANGED conn

\* validate_and_clean_data raised in its loop: process_data ends with it
ProcessDataRaise ==
    /\ ext.proc = "validate_and_clean_data"
    /\ pc = "ready" /\ outcome # "returned"
    /\ ext' = [ext EXCEPT !.proc = "raised"]
    /\ UNCHANGED <<cleaning, conn>>

\* `self.valid_df = pd.DataFrame(self.get_valid_data())`; get_valid_data
\* makes self.valid_data a DataFrame and returns a DataFrame of it
ProcessGetValidData ==
    /\ ext.proc = "validate_and_clean_data"
    /\ pc = "ready" /\ outcome = "returned"
    /\ valid_data' = DataFrameOf(valid_data)
    /\ ext' = [ext EXCEPT !.returned = DataFrameOf(valid_data'),
                          !.valid_df = DataFrameOf(DataFrameOf(valid_data')),
                          !.calls = Append(@, "get_valid_data"),
                          !.proc = ProcAfter("get_valid_data")]
    /\ UNCHANGED <<df, model_class, invalid_data, invalid_errors, handlers,
                   logfile, sink, pc, pos, outcome, run, prevRun, visited,
                   saves, conn>>

\* `invalid_df = self.get_invalid_data()`: a local
ProcessGetInvalidData ==
    /\ ext.proc = "get_invalid_data"
    /\ ext' = [ext EXCEPT !.calls = Append(@, "get_invalid_data"),
                          !.proc = ProcAfter("get_invalid_data")]
    /\ UNCHANGED <<cleaning, conn>>

\* `self.save_invalid_data_log()`, then the two prints
ProcessSaveInvalidDataLog ==
    /\ ext.proc = "save_invalid_data_log"
    /\ SaveInvalidDataLogCall
    /\ ext' = [ext EXCEPT !.calls = Append(@, "save_invalid_data_log"),
                          !.proc = ProcAfter("save_invalid_data_log")]
    /\ UNCHANGED conn

\* de = DataExtractor(model_class=mc): no frame yet, or the frame an
\* earlier extraction of the orders table left in de.df
ExtractorFrames == {NoFrame, Frame(OrderCols, <<RowGood, RowText>>)}

InitExtractor ==
    \E b \in ExtractorFrames, mc \in {"StoreModel", "OrderModel"} : InitState(b, mc)

NextExtractor ==
    \/ \E n \in 0..MaxStores : RetrieveBegin(n)
    \/ \E ok \in BOOLEAN : RetrieveStore(ok)
    \/ RetrieveReturn
    \/ \E ok \in BOOLEAN : ProcessDataBegin(ok)
    \/ ValidateRow
    \/ ValidateReturn
    \/ ProcessDataRaise
    \/ ProcessGetValidData
    \/ ProcessGetInvalidData
    \/ ProcessSaveInvalidDataLog

SpecExtractor == InitExtractor /\ [][NextExtractor]_vars

(***************************************************************************)
(* Properties                                                              *)
(***************************************************************************)
Returned == pc = "ready" /\ outcome = "returned"

ValidLabels == [i \in 1..Len(valid_data.items) |-> valid_data.items[i].src]
InvalidLabels == [i \in 1..Len(invalid_data.items) |-> invalid_data.items[i].name]

Occurrences(seq, x) == Cardinality({i \in 1..Len(seq) : seq[i] = x})

Increasing(seq) == \A i, j \in 1..Len(seq) : i < j => seq[i] < seq[j]

\* the required fields of model mc that are no column of the frame
MissingRequired(mc, frame) == {f \in Required(mc) : f \notin Range(frame.columns)}

\* the lines the log files have gained since the current call began
LogGrowth(m) == Len(logfile[m]) - Len(run.log[m])

\* C1: when validate_and_clean_data has returned, every row of the batch is
\* in exactly one of valid_data and invalid_data, once, so that the two
\* lengths add up to the number of rows.
C1_Partition ==
    Returned =>
        /\ Len(valid_data.items) + Len(invalid_data.items) = Len(run.df.rows)
        /\ \A i \in 1..Len(run.df.rows) :
              Occurrences(ValidLabels, run.df.rows[i].name)
              + Occurrences(InvalidLabels, run.df.rows[i].name) = 1

C1_Witness ==
    Returned /\ valid_data.items # <<>> /\ invalid_data.items # <<>>

\* C2: on a batch that has every required column, no field value makes
\* validate_and_clean_data raise.
C2_BadFieldNeverRaises ==
    (run.set /\ MissingRequired(run.mc, run.df) = {}) => outcome # "TypeError"

\* C3: the loop visits the rows once each in input order, and valid_data and
\* invalid_data each keep their rows in input order.
C3_InputOrder ==
    /\ pc = "loop" => visited = [i \in 1..(pos - 1) |-> run.df.rows[i].name]
    /\ Returned => visited = [i \in 1..Len(run.df.rows) |-> run.df.rows[i].name]
    /\ Increasing(ValidLabels)
    /\ Increasing(InvalidLabels)

C3_Witness == Returned /\ Len(valid_data.items) >= 2

\* C4: a call of validate_and_clean_data that returns on the same instance
\* with the df and model_class of the last call that returned leaves
\* valid_data, invalid_data and invalid_errors as that call left them.
C4_RerunIdentical ==
    [][(/\ pc = "loop" /\ pc' = "ready" /\ outcome' = "returned"
        /\ prevRun.set /\ prevRun.df = df /\ prevRun.mc = model_class)
       => (/\ valid_data' = prevRun.valid
           /\ invalid_data' = prevRun.invalid
           /\ invalid_errors' = prevRun.errors)]_vars

C4_Witness ==
    Returned /\ prevRun.again /\ valid_data.items # <<>> /\ invalid_data.items # <<>>

\* C5 as stated: on a batch that lacks a required column the call fails at
\* once, and no row is classified invalid.
C5_FatalOnMissingColumn ==
    (run.set /\ MissingRequired(run.mc, run.df) # {}) =>
        (outcome # "returned" /\ invalid_data.items = <<>>)

\* C5 as amended: on a batch that lacks a required column the rows are
\* validated one by one: none is valid, every row recorded in
\* invalid_errors carries a "missing" error for each absent required
\* column, and when the call returns every row is in invalid_data.
C5_MissingColumnPerRow ==
    (run.set /\ MissingRequired(run.mc, run.df) # {}) =>
        /\ valid_data.items = <<>>
        /\ \A k \in 1..Len(invalid_errors.items) :
              \A f \in MissingRequired(run.mc, run.df) :
                 \E j \in 1..Len(invalid_errors.items[k].errors) :
                    /\ invalid_errors.items[k].errors[j].loc = f
                    /\ invalid_errors.items[k].errors[j].type = "missing"
        /\ Returned => Len(invalid_data.items) = Len(run.df.rows)

C5_Witness ==
    /\ Returned
    /\ MissingRequired(run.mc, run.df) # {}
    /\ Len(invalid_data.items) >= 2

\* C6: the error entry of an invalid row has exactly one error for each of
\* the row's failing fields and none for the others, and a visited row is in
\* valid_data exactly when none of its fields fails.
C6_EveryFailingField ==
    /\ \A k \in 1..Len(invalid_errors.items) :
          LET e == invalid_errors.items[k]
              out == FieldOutcomes(run.mc, e.data)
          IN  \A i \in 1..Len(out) :
                 Cardinality({j \in 1..Len(e.errors) :
                                 e.errors[j].loc = Fields(run.mc)[i]})
                 = IF out[i].st = "ok" THEN 0 ELSE 1
    /\ \A i \in 1..Len(visited) :
          LET out == FieldOutcomes(run.mc, run.df.rows[i].data)
          IN  (Occurrences(ValidLabels, visited[i]) > 0)
              <=> (\A j \in 1..Len(out) : out[j].st = "ok")

C6_Witness ==
    /\ valid_data.items # <<>>
    /\ \E k \in 1..Len(invalid_errors.items) :
          Len(invalid_errors.items[k].errors) >= 2

\* C7: invalid_errors runs parallel to invalid_data: the k-th entry holds
\* the raw record of the k-th invalid row, a non-empty error list, and as
\* index the row's "index" value when the batch has that column and the
\* row's positional label otherwise.
C7_ErrorsParallel ==
    /\ Len(invalid_errors.items) = Len(invalid_data.items)
    /\ \A k \in 1..Len(invalid_errors.items) :
          LET e == invalid_errors.items[k]
              row == invalid_data.items[k]
          IN  /\ e.data = row.data
              /\ row = run.df.rows[row.name + 1]
              /\ e.errors # <<>>
              /\ e.index = IF "index" \in Range(run.df.columns)
                           THEN row.data["index"] ELSE IntV(row.name)

C7_Witness ==
    /\ "index" \in Range(run.df.columns)
    /\ \E k \in 1..Len(invalid_errors.items) :
          invalid_errors.items[k].index # IntV(invalid_data.items[k].name)

\* C8: the error log gains exactly one line for every invalid row of the
\* batch.
C8_OneLogLinePerInvalidRow ==
    run.set =>
        LogGrowth("OrderModel") + LogGrowth("DateModel") = Len(invalid_data.items)

\* C9: a failure of the logging collaborator never ends
\* validate_and_clean_data: the call goes on to classify the rows.
C9_LoggingFailureSwallowed == outcome # "OSError"

\* C10: a save_invalid_data_log call that directly follows another leaves
\* every sink file as the first call left it.
C10_SaveIdempotent == [][(saves >= 1 /\ saves' >= 1) => sink' = sink]_vars

C10_Witness ==
    saves = 2 /\ sink[model_class].exists /\ sink[model_class].lines # <<>>

\* the columns of a written sink file that are no column of the batch
SinkExtraColumns(m) == {c \in Range(sink[m].header) : c \notin Range(run.df.columns)}

\* C11: a sink file written from the invalid rows of a batch holds, beside
\* the raw values of each row, the failure reasons recorded for it: it has
\* every column of the batch and at least one column more.
C11_SinkHoldsReasons ==
    (Returned /\ saves >= 1 /\ invalid_data.items # <<>>) =>
        /\ Range(run.df.columns) \subseteq Range(sink[model_class].header)
        /\ SinkExtraColumns(model_class) # {}

(***************************************************************************)
(* Properties of the record models, over the rows a call has visited       *)
(***************************************************************************)
\* the raw record of the k-th valid item
RawOfValid(k) == run.df.rows[valid_data.items[k].src + 1].data

\* the i-th row of the batch is in valid_data
IsValidRow(i) == Occurrences(ValidLabels, run.df.rows[i].name) > 0

\* the i-th row of the batch is in invalid_data, with an error at field f
InvalidAt(i, f) ==
    \E k \in 1..Len(invalid_errors.items) :
        /\ invalid_data.items[k].name = run.df.rows[i].name
        /\ \E j \in 1..Len(invalid_errors.items[k].errors) :
              invalid_errors.items[k].errors[j].loc = f

\* every field of the row but f validates
OthersOk(mc, row, f) ==
    \A g \in Range(Fields(mc)) \ {f} : FieldOutcome(mc, g, row).st = "ok"

\* the country of the row is a text that strips to "United Kingdom"
CountryIsUK(row) ==
    /\ "country" \in DOMAIN row
    /\ row["country"].t = "str"
    /\ Strip(row["country"].s) = UnitedKingdom

\* C12: a User row with country code "GGB" is accepted, with the code "GB",
\* when its country normalizes to "United Kingdom" (and its other fields are
\* valid); with any other or failed country it is invalid at country_code;
\* a row with the code "ggb" is always invalid at country_code.
C12_GGBCorrectedForUK ==
    (run.set /\ run.mc = "UserModel") =>
        \A i \in 1..Len(visited) :
            LET row == run.df.rows[i].data
            IN  /\ (row["country_code"] = StrV(<<"G", "G", "B">>) /\ CountryIsUK(row)
                    /\ OthersOk("UserModel", row, "country_code"))
                   => \E k \in 1..Len(valid_data.items) :
                         /\ valid_data.items[k].src = run.df.rows[i].name
                         /\ valid_data.items[k].rec["country_code"] = StrV(<<"G", "B">>)
                         /\ valid_data.items[k].rec["country"] = StrV(UnitedKingdom)
                /\ (row["country_code"] = StrV(<<"G", "G", "B">>) /\ ~CountryIsUK(row))
                   => InvalidAt(i, "country_code")
                /\ row["country_code"] = StrV(<<"g", "g", "b">>)
                   => InvalidAt(i, "country_code")

C12_Witness ==
    /\ run.set /\ run.mc = "UserModel"
    /\ \E k \in 1..Len(valid_data.items) :
          /\ RawOfValid(k)["country_code"] = StrV(<<"G", "G", "B">>)
          /\ valid_data.items[k].rec["country_code"] = StrV(<<"G", "B">>)

IsTwoUppercase(v) ==
    v.t = "str" /\ Len(v.s) = 2 /\ \A i \in 1..Len(v.s) : v.s[i] \in Range(UpperLetters)

\* C13: every valid User or Store record holds a country_code of exactly two
\* uppercase letters, and a visited row whose country_code is another text
\* (the "GGB" of a United Kingdom user apart) is invalid at country_code.
C13_TwoUppercaseLetters ==
    (run.set /\ run.mc \in {"UserModel", "StoreModel"}) =>
        /\ \A k \in 1..Len(valid_data.items) :
              IsTwoUppercase(valid_data.items[k].rec["country_code"])
        /\ \A i \in 1..Len(visited) :
              LET row == run.df.rows[i].data
              IN  (/\ ~IsTwoUppercase(row["country_code"])
                   /\ ~(run.mc = "UserModel" /\ CountryIsUK(row)
                        /\ row["country_code"] = StrV(<<"G", "G", "B">>)))
                  => InvalidAt(i, "country_code")

\* C14: every phone number of a valid User record is empty or starts with
\* "0", and "+49(0)123456789" is normalized to "0123456789".
C14_PhoneLeadingZero ==
    (run.set /\ run.mc = "UserModel") =>
        \A k \in 1..Len(valid_data.items) :
            LET phone == valid_data.items[k].rec["phone_number"].s
            IN  /\ phone = <<>> \/ Head(phone) = "0"
                /\ RawOfValid(k)["phone_number"] = StrV(PhoneIntl)
                   => phone = PhoneCanonical

\* "0" followed only by digits
IsCanonicalPhone(v) ==
    v.t = "str" /\ v.s # <<>> /\ Head(v.s) = "0" /\ \A i \in 1..Len(v.s) : v.s[i] \in DigitSet

\* C15: a valid User record keeps a phone number that came in canonical form
\* as it came, and keeps the country code "GB" whatever the country.
C15_CanonicalUnchanged ==
    (run.set /\ run.mc = "UserModel") =>
        \A k \in 1..Len(valid_data.items) :
            /\ IsCanonicalPhone(RawOfValid(k)["phone_number"])
               => valid_data.items[k].rec["phone_number"] = RawOfValid(k)["phone_number"]
            /\ RawOfValid(k)["country_code"] = StrV(<<"G", "B">>)
               => valid_data.items[k].rec["country_code"] = StrV(<<"G", "B">>)

\* the UUID fields of a record kind
UuidFields(mc) ==
    CASE mc = "UserModel" -> {"user_uuid"}
      [] mc = "OrderModel" -> {"date_uuid", "user_uuid"}
      [] mc = "DateModel" -> {"date_uuid"}
      [] OTHER -> {}

\* 8-4-4-4-12 lower-case hexadecimal digits
IsCanonicalUuid(cs) ==
    /\ Len(cs) = 36
    /\ \A i \in 1..Len(cs) :
          IF i \in {9, 14, 19, 24} THEN cs[i] = "-" ELSE cs[i] \in DigitSet \cup HexLower

\* a canonical UUID of version 4 (RFC 4122 variant)
IsCanonicalV4(cs) ==
    IsCanonicalUuid(cs) /\ cs[15] = "4" /\ cs[20] \in {"8", "9", "a", "b"}

\* C16: a UUID field validates exactly when the trimmed, lower-cased input
\* is a version-4 UUID in canonical form, and the record then holds that
\* canonical form.
C16_UuidV4Canonical ==
    run.set =>
        \A i \in 1..Len(visited) : \A f \in UuidFields(run.mc) :
            LET row == run.df.rows[i].data
                text == Lower(Strip(PyStr(row[f])))
            IN  /\ IsCanonicalV4(text) <=> ~InvalidAt(i, f)
                /\ IsValidRow(i) =>
                      \E k \in 1..Len(valid_data.items) :
                          /\ valid_data.items[k].src = run.df.rows[i].name
                          /\ valid_data.items[k].rec[f] = UuidObj(RemoveChar(text, "-"))

\* C17: a Product row whose uuid is a canonical hyphenated lower-case UUID
\* and whose other fields are valid is accepted.
C17_ProductCanonicalUuid ==
    (run.set /\ run.mc = "ProductModel") =>
        \A i \in 1..Len(visited) :
            LET row == run.df.rows[i].data
            IN  (/\ row["uuid"].t = "str" /\ IsCanonicalUuid(row["uuid"].s)
                 /\ OthersOk("ProductModel", row, "uuid"))
                => IsValidRow(i)

EndsWith(cs, p) == Len(cs) >= Len(p) /\ SubSeq(cs, Len(cs) - Len(p) + 1, Len(cs)) = p

\* the unit token a weight text ends with
TrailingUnit(cs) ==
    IF EndsWith(cs, <<"k", "g">>) THEN <<"k", "g">>
    ELSE IF EndsWith(cs, <<"m", "l">>) THEN <<"m", "l">>
    ELSE IF EndsWith(cs, <<"o", "z">>) THEN <<"o", "z">>
    ELSE IF EndsWith(cs, <<"g">>) THEN <<"g">>
    ELSE <<>>

\* grams per unit, as a number and its decimal places
GramsPer(unit) ==
    CASE unit = <<"k", "g">> -> <<1000, 0>>
      [] unit = <<"o", "z">> -> <<283495, 4>>
      [] OTHER -> <<1, 0>>

\* C18: the weight of a valid Product record came as a number followed by
\* one of the units kg, g, ml, oz (in either case) and is that number in
\* grams, not negative.
C18_WeightInGrams ==
    (run.set /\ run.mc = "ProductModel") =>
        \A k \in 1..Len(valid_data.items) :
            LET text == Lower(Strip(RawOfValid(k)["weight"].s))
                unit == TrailingUnit(text)
                number == Strip(SubSeq(text, 1, Len(text) - Len(unit)))
                weight == valid_data.items[k].rec["weight"]
            IN  /\ unit # <<>>
                /\ IsDecimalText(number)
                /\ weight = FloatV(FloatRepr(DecimalNum(number) * GramsPer(unit)[1],
                                             DecimalPlaces(number) + GramsPer(unit)[2]))
                /\ Head(weight.s) # "-"

\* C19: the product_quantity of a valid Order record, when present, is
\* greater than 0.
C19_QuantityPositive ==
    (run.set /\ run.mc = "OrderModel") =>
        \A k \in 1..Len(valid_data.items) :
            LET quantity == valid_data.items[k].rec["product_quantity"]
            IN  quantity.t = "none" \/ quantity.n > 0

\* HH:MM:SS
IsHms(cs) ==
    /\ Len(cs) = 8
    /\ cs[3] = ":" /\ cs[6] = ":"
    /\ \A i \in {1, 2, 4, 5, 7, 8} : cs[i] \in DigitSet
    /\ DigitsValue(SubSeq(cs, 1, 2)) < 24
    /\ DigitsValue(SubSeq(cs, 4, 5)) < 60
    /\ DigitsValue(SubSeq(cs, 7, 8)) < 60

\* C20: a valid DateDimension record has a timestamp of the form HH:MM:SS
\* and a year, month and day that are a real calendar date.
C20_RealCalendarDate ==
    (run.set /\ run.mc = "DateModel" /\ MissingRequired(run.mc, run.df) = {}) =>
        \A k \in 1..Len(valid_data.items) :
            LET rec == valid_data.items[k].rec
            IN  /\ IsHms(rec["timestamp"].s)
                /\ IsRealDate(rec["year"].n, rec["month"].n, rec["day"].n)

\* C21: the card_number of a valid Payment or Order record is the raw value
\* with every non-digit removed, and it has between 9 and 19 digits.
C21_CardDigits9To19 ==
    (run.set /\ run.mc \in {"PaymentModel", "OrderModel"}) =>
        \A k \in 1..Len(valid_data.items) :
            LET raw == RawOfValid(k)["card_number"]
                card == valid_data.items[k].rec["card_number"]
            IN  /\ raw.t \in {"int", "str"}
                /\ card = StrV(DigitsOnly(PyStr(raw)))
                /\ CardMinLen <= Len(card.s) /\ Len(card.s) <= CardMaxLen

\* C22: a Store row whose raw staff_numbers is a negative integer is
\* invalid, its other fields being valid.
C22_NegativeStaffInvalid ==
    (run.set /\ run.mc = "StoreModel") =>
        \A i \in 1..Len(visited) :
            LET row == run.df.rows[i].data
            IN  ("staff_numbers" \in DOMAIN row /\ row["staff_numbers"].t = "int"
                 /\ row["staff_numbers"].n < 0
                 /\ OthersOk("StoreModel", row, "staff_numbers"))
                => ~IsValidRow(i) /\ InvalidAt(i, "staff_numbers")

\* C27: the error-log entries of a batch are written only to the log file
\* of the model class in effect: the log file of every other model class
\* gains no line during the call.
C27_LogOnlyToCurrentModelFile ==
    run.set => \A m \in RecordModels \ {run.mc} : LogGrowth(m) = 0

\* C28: after save_invalid_data_log returns, the sink of the model class
\* holds exactly the invalid rows of the most recent validate call: none
\* when that call found no invalid row.
C28_SinkHoldsLatestInvalidSet ==
    (saves >= 1 /\ run.set /\ outcome = "returned" /\ model_class = run.mc) =>
        sink[model_class].lines = CsvOf(invalid_data.items).lines

(***************************************************************************)
(* Properties of the connector                                             *)
(***************************************************************************)
\* a call of one of the two methods with a retry loop
RetryCall == conn.call \in {"init_db_engine", "upload_to_db"}

\* the call is over
CallOver == conn.pc = "idle"

\* C23: init_db_engine and upload_to_db sleep delay after every failed
\* attempt but the last, so that a call whose attempts all failed with a
\* database error made exactly retries attempts and retries - 1 sleeps and
\* raised SQLAlchemyError, and a call stops at its first success, without
\* a further attempt or sleep.
C23_RetriesAttemptsThenRaise ==
    (RetryCall /\ conn.attempts >= 1) =>
        /\ \A i \in 1..Len(conn.sleeps) : conn.sleeps[i] = conn.delay
        /\ conn.attempts <= conn.retries
        /\ conn.succeeded =>
              CallOver /\ conn.outcome = "returned" /\ Len(conn.sleeps) = conn.attempts - 1
        /\ (~conn.succeeded /\ ~CallOver) => Len(conn.sleeps) = conn.attempts
        /\ (~conn.succeeded /\ CallOver /\ conn.outcome \notin {"CredentialsError", "Exception"}) =>
              /\ conn.outcome = "SQLAlchemyError"
              /\ conn.attempts = conn.retries
              /\ Len(conn.sleeps) = conn.retries - 1

\* a call of MaxRetries attempts that all failed
C23_Witness ==
    /\ conn.call = "init_db_engine" /\ CallOver
    /\ conn.outcome = "SQLAlchemyError"
    /\ conn.attempts = MaxRetries /\ Len(conn.sleeps) = MaxRetries - 1
    /\ conn.delay = DefaultDelay

\* C24: after every attempt of upload_to_db the target engine is None and
\* every target engine the call created has been disposed; an upload that
\* succeeds at its first attempt created one engine, connected once and
\* disposed once.
C24_UploadClosesTarget ==
    (conn.call = "upload_to_db" /\ conn.attempts >= 1) =>
        /\ conn.target_engine = "none"
        /\ conn.disposes = conn.creates
        /\ (conn.succeeded /\ conn.attempts = 1) =>
              conn.creates = 1 /\ conn.connects = 1 /\ conn.disposes = 1

C24_Witness ==
    /\ conn.call = "upload_to_db" /\ CallOver /\ conn.outcome = "returned"
    /\ conn.succeeded /\ conn.attempts = 1 /\ conn.disposes = 1

\* C29: whenever init_db_engine returns without raising, self.engine is an
\* engine on which connect() succeeded, for every value of retries.
C29_ReturnedMeansConnected ==
    (conn.call = "init_db_engine" /\ CallOver /\ conn.outcome = "returned") =>
        conn.engine = "connected"

\* C30: after an upload_to_db call that made an attempt self.engine is
\* None, and a list_db_tables or read_rds_table call made before the next
\* init_db_engine call raises "Database engine is not initialized."; after
\* an init_db_engine call that set the engine they do not raise it.
C30_UploadDisposesSource ==
    /\ (conn.call = "upload_to_db" /\ conn.attempts >= 1) => conn.engine = "none"
    /\ conn.sinceUpload => conn.engine = "none"
    /\ (conn.call \in {"list_db_tables", "read_rds_table"} /\ conn.sinceUpload) =>
          /\ conn.message = NotInitialized
          /\ conn.outcome = IF conn.call = "list_db_tables" THEN "ValueError"
                            ELSE "RuntimeError"
    /\ (conn.call \in {"list_db_tables", "read_rds_table"} /\ conn.engine # "none") =>
          conn.message # NotInitialized

\* a read after an upload that disposed a live source engine
C30_Witness ==
    /\ conn.call = "read_rds_table" /\ conn.sinceUpload /\ conn.closedSource
    /\ conn.message = NotInitialized

(***************************************************************************)
(* Properties of the extractor                                             *)
(***************************************************************************)
\* 1, 2, ..., n
UpTo(n) == [i \in 1..n |-> i]

\* the payloads of the stores of seq that are not in failed, in order
RECURSIVE Responses(_, _)
Responses(seq, failed) ==
    IF seq = <<>> THEN <<>>
    ELSE IF Head(seq) \in Range(failed) THEN Responses(Tail(seq), failed)
    ELSE <<StoreResponse(Head(seq))>> \o Responses(Tail(seq), failed)

ProcessCalls ==
    <<"validate_and_clean_data", "get_valid_data", "get_invalid_data",
      "save_invalid_data_log">>

\* C26: process_data calls validate_and_clean_data, get_valid_data,
\* get_invalid_data and save_invalid_data_log once each, in that order,
\* and afterwards valid_df holds the valid data get_valid_data returned:
\* the valid records of the validate call.
C26_ProcessDataCallsInOrder ==
    /\ \E n \in 0..Len(ProcessCalls) : ext.calls = SubSeq(ProcessCalls, 1, n)
    /\ ext.proc = "done" =>
          /\ ext.calls = ProcessCalls
          /\ ext.valid_df = ext.returned
          /\ ext.valid_df.items = valid_data.items

\* process_data is over, with a valid record in valid_df and an invalid
\* one in the sink
C26_Witness ==
    /\ ext.proc = "done"
    /\ Len(ext.valid_df.items) = 1
    /\ Len(invalid_data.items) = 1
    /\ sink[model_class].exists

====
